---- MODULE Spec2Model ----
(***************************************************************************)
(* Model of src/src/canvas-image-plotter.js: the ClipAdjustment geometry   *)
(* (position + diagonal + fixed direction ratios), the Clip snapshot and   *)
(* the ImagePlotter operations init, centerFullSize, cover, contain, move  *)
(* and zoom.                                                               *)
(*                                                                         *)
(* Numbers.  The program computes with JavaScript numbers.  The only       *)
(* irrational quantity it ever forms is Math.sqrt(w^2 + h^2) of two        *)
(* integers (line 14), and everything else is built from it with + - * /.  *)
(* A number is therefore modelled exactly as an element of the field       *)
(* Q(sqrt(D)):  [n, r, d, D]  stands for  (n + r * sqrt(D)) / d  with      *)
(* d > 0, in lowest terms, D = 0 when r = 0.  d = 0 is NaN.  Rounding of   *)
(* IEEE doubles is not modelled: the model is the real-number reading of   *)
(* the code.                                                               *)
(***************************************************************************)
EXTENDS Integers, FiniteSets, Sequences, TLC

(***************************************************************************)
(* Bounds of the model.                                                    *)
(***************************************************************************)
\* number of calls made on a plotter after its construction
MaxOps == 2

(***************************************************************************)
(* JavaScript numbers.                                                     *)
(***************************************************************************)
Abs(k) == IF k < 0 THEN -k ELSE k

RECURSIVE GCD(_, _), Norm(_, _, _, _)
GCD(a, b) == IF b = 0 THEN a ELSE GCD(b, a % b)

IsSquare(k) == k >= 0 /\ \E s \in 0..k : s * s = k
ISqrt(k) == CHOOSE s \in 0..k : s * s = k

NaN == [n |-> 0, r |-> 0, d |-> 0, D |-> 0]
IsNaN(p) == p.d = 0

\* v is e, computed once: the body F reads it as often as it likes
With(e, F(_)) == F(e)

\* (n + r*sqrt(D)) / d with d > 0, divided through by g
Scaled(n, r, d, D, g) ==
    [n |-> n \div g, r |-> r \div g, d |-> d \div g, D |-> IF r = 0 THEN 0 ELSE D]

\* canonical form of (n + r*sqrt(D)) / d
Norm(n, r, d, D) ==
    IF d = 0 THEN NaN
    ELSE IF d < 0 THEN Norm(-n, -r, -d, D)
    ELSE IF r # 0 /\ IsSquare(D) THEN Norm(n + r * ISqrt(D), 0, d, 0)
    ELSE Scaled(n, r, d, D, GCD(GCD(Abs(n), Abs(r)), d))

Num(k) == [n |-> k, r |-> 0, d |-> 1, D |-> 0]
Rat(a, b) == Norm(a, 0, b, 0)
Zero == Num(0)
Half == Rat(1, 2)

\* the radicand two operands share
RadOf(p, q) == IF p.D # 0 THEN p.D ELSE q.D

Add(p, q) ==
    IF IsNaN(p) \/ IsNaN(q) THEN NaN
    ELSE Norm(p.n * q.d + q.n * p.d, p.r * q.d + q.r * p.d, p.d * q.d, RadOf(p, q))

Neg(p) == IF IsNaN(p) THEN NaN ELSE [p EXCEPT !.n = -p.n, !.r = -p.r]

Sub(p, q) == Add(p, Neg(q))

Mul(p, q) ==
    IF IsNaN(p) \/ IsNaN(q) THEN NaN
    ELSE Norm(p.n * q.n + p.r * q.r * RadOf(p, q), p.n * q.r + p.r * q.n,
              p.d * q.d, RadOf(p, q))

\* p / q; 0 / 0 is NaN (a nonzero p over 0, an Infinity, is not reached: every
\* divisor the program forms from dimensions >= 1 is positive)
Div(p, q) ==
    IF IsNaN(p) \/ IsNaN(q) THEN NaN
    ELSE Mul(p, Norm(q.n * q.d, -(q.r * q.d),
                     q.n * q.n - q.r * q.r * RadOf(p, q), RadOf(p, q)))

\* -1, 0 or 1: the sign of a number that is not NaN
Sgn(k) == IF k > 0 THEN 1 ELSE IF k < 0 THEN -1 ELSE 0

Sign(p) ==
    IF p.r = 0 THEN Sgn(p.n)
    ELSE IF p.n >= 0 /\ p.r > 0 THEN 1
    ELSE IF p.n <= 0 /\ p.r < 0 THEN -1
    ELSE IF p.n > 0 THEN Sgn(p.n * p.n - p.r * p.r * p.D)
    ELSE Sgn(p.r * p.r * p.D - p.n * p.n)

Less(p, q) == ~IsNaN(p) /\ ~IsNaN(q) /\ Sign(Sub(p, q)) < 0
LessEq(p, q) == ~IsNaN(p) /\ ~IsNaN(q) /\ Sign(Sub(p, q)) <= 0

\* Math.sqrt of an integer-valued number
Sqrt(p) ==
    IF IsNaN(p) \/ p.r # 0 \/ p.d # 1 \/ p.n < 0 THEN NaN
    ELSE Norm(0, 1, 1, p.n)

\* Math.pow(p, 2)
Pow2(p) == Mul(p, p)

\* parseInt of a rational number: truncation toward zero
parseInt(p) ==
    IF IsNaN(p) \/ p.r # 0 THEN NaN
    ELSE Num(IF p.n >= 0 THEN p.n \div p.d ELSE -((-p.n) \div p.d))

\* Math.min / Math.max of two numbers
Min(p, q) == IF IsNaN(p) \/ IsNaN(q) THEN NaN ELSE IF LessEq(p, q) THEN p ELSE q
Max(p, q) == IF IsNaN(p) \/ IsNaN(q) THEN NaN ELSE IF LessEq(p, q) THEN q ELSE p

\* a number is falsy when it is 0 or NaN
Falsy(p) == IsNaN(p) \/ p = Zero

\* the == of two numbers (NaN equals nothing)
NumEq(p, q) == ~IsNaN(p) /\ ~IsNaN(q) /\ p = q

(***************************************************************************)
(* Option objects.  An options object is a function from the names of the  *)
(* properties it has; a property it lacks reads as undefined.              *)
(***************************************************************************)
NoOpts == [k \in {} |-> Zero]
Has(opts_, k) == k \in DOMAIN opts_

(***************************************************************************)
(* Clip: a static rectangle.                                               *)
(***************************************************************************)
Clip(left_, top_, width_, height_) ==
    [left |-> left_, top |-> top_, width |-> width_, height |-> height_]

(***************************************************************************)
(* ClipAdjustment: position, diagonal and the two fixed direction ratios.  *)
(***************************************************************************)
ClipAdjustment(left_, top_, width_, height_) ==
    With(Sqrt(Add(Pow2(parseInt(width_)), Pow2(parseInt(height_)))), LAMBDA hyp :
        [_x   |-> left_,
         _y   |-> top_,
         _hyp |-> hyp,
         _sin |-> Div(parseInt(width_), hyp),
         _cos |-> Div(parseInt(height_), hyp)])

\* a zoom that grows the diagonal from the top, left corner
ClipAdjustment_zoom_uncentered(this, amount_) ==
    [this EXCEPT !._hyp = Add(this._hyp, amount_)]

ClipAdjustment_zoom(this, amount_) ==
    With(Mul(amount_, Half), LAMBDA hyp_diff :
        [this EXCEPT !._hyp = Add(this._hyp, amount_),
                     !._y   = Sub(this._y, Mul(hyp_diff, this._cos)),
                     !._x   = Sub(this._x, Mul(hyp_diff, this._sin))])

\* a move with the two offsets swapped
ClipAdjustment_move_swapped(this, x_offset_, y_offset_) ==
    [this EXCEPT !._x = Add(this._x, y_offset_),
                 !._y = Add(this._y, x_offset_)]

ClipAdjustment_move(this, x_offset_, y_offset_) ==
    [this EXCEPT !._x = Add(this._x, x_offset_),
                 !._y = Add(this._y, y_offset_)]

getX(this) == this._x
getY(this) == this._y
getWidth(this) == Mul(this._sin, this._hyp)
\* a height read with the width's ratio
getHeight_sin(this) == Mul(this._sin, this._hyp)
getHeight(this) == Mul(this._cos, this._hyp)

calcHypDifferenceByWidth(this, new_width_) ==
    Sub(this._hyp, Div(new_width_, this._sin))

calcHypDifferenceByHeight(this, new_height_) ==
    Sub(this._hyp, Div(new_height_, this._cos))

getState(this) == Clip(getX(this), getY(this), getWidth(this), getHeight(this))

(***************************************************************************)
(* ImagePlot: the pair every operation returns.                            *)
(***************************************************************************)
ImagePlot(image_, canvas_) == [image |-> image_, canvas |-> canvas_]

(***************************************************************************)
(* ImagePlotter.  Each method is an operator from the object before the    *)
(* call to [self |-> the object after it, ret |-> the value returned].     *)
(***************************************************************************)
\* new Clip(0, 0, this._image.width, this._image.height)
plot_image(self) == Clip(Zero, Zero, self._image.width, self._image.height)

\* a centering that moves by the whole difference, not half of it
centerFullSize_whole(self) ==
    With(ClipAdjustment_move(self._state,
                             Neg(Sub(self._image.width, self._canvas.width)),
                             Neg(Sub(self._image.height, self._canvas.height))),
         LAMBDA state :
            [self |-> [self EXCEPT !._state = state],
             ret  |-> ImagePlot(plot_image(self), getState(state))])

centerFullSize(self) ==
    With(Sub(self._image.width, self._canvas.width), LAMBDA width_diff :
    With(Sub(self._image.height, self._canvas.height), LAMBDA height_diff :
    With(ClipAdjustment_move(self._state, Mul(Neg(width_diff), Half),
                             Mul(Neg(height_diff), Half)), LAMBDA state :
        [self |-> [self EXCEPT !._state = state],
         ret  |-> ImagePlot(plot_image(self), getState(state))])))

\* line 182 keeps centerFullSize's return value in an undeclared global that
\* nothing reads; only the move it makes counts
cover(self) ==
    With(centerFullSize(self).self, LAMBDA s1 :
    With(IF NumEq(Min(s1._image.width, s1._image.height), s1._image.width)
         THEN calcHypDifferenceByWidth(s1._state, s1._canvas.width)
         ELSE calcHypDifferenceByHeight(s1._state, s1._canvas.height), LAMBDA hyp_diff :
    With(ClipAdjustment_zoom(s1._state, Neg(hyp_diff)), LAMBDA state :
        [self |-> [s1 EXCEPT !._state = state],
         ret  |-> ImagePlot(plot_image(s1), getState(state))])))

contain(self) ==
    With(centerFullSize(self).self, LAMBDA s1 :
    With(IF NumEq(Max(s1._image.width, s1._image.height), s1._image.width)
         THEN calcHypDifferenceByWidth(s1._state, s1._canvas.width)
         ELSE calcHypDifferenceByHeight(s1._state, s1._canvas.height), LAMBDA hyp_diff :
    With(ClipAdjustment_zoom(s1._state, Neg(hyp_diff)), LAMBDA state :
        [self |-> [s1 EXCEPT !._state = state],
         ret  |-> ImagePlot(plot_image(s1), getState(state))])))

\* an init that keeps the old adjustment's position
init_keep_position(self, image_width_, image_height_, canvas_width_, canvas_height_, opts_) ==
    With([self EXCEPT !._image.width   = image_width_,
                      !._image.height  = image_height_,
                      !._canvas.width  = canvas_width_,
                      !._canvas.height = canvas_height_,
                      !._state = ClipAdjustment(self._state._x, self._state._y,
                                                image_width_, image_height_)],
         LAMBDA s1 :
            IF Has(opts_, "orientation") /\ opts_.orientation = "contain"
            THEN contain(s1)
            ELSE cover(s1))

init(self, image_width_, image_height_, canvas_width_, canvas_height_, opts_) ==
    With([self EXCEPT !._image.width   = image_width_,
                      !._image.height  = image_height_,
                      !._canvas.width  = canvas_width_,
                      !._canvas.height = canvas_height_,
                      !._state = ClipAdjustment(Zero, Zero, image_width_, image_height_)],
         LAMBDA s1 :
            IF Has(opts_, "orientation") /\ opts_.orientation = "contain"
            THEN contain(s1)
            ELSE cover(s1))

move(self, x_move_, y_move_) ==
    With(ClipAdjustment_move(self._state, x_move_, y_move_), LAMBDA state :
        [self |-> [self EXCEPT !._state = state],
         ret  |-> ImagePlot(plot_image(self), getState(state))])

\* a multiplier that ignores the per-call option
zoom_mult_field(self, opts_) == self.zoom_multiplier

\* opts_.zoom_multiplier || this.zoom_multiplier
zoom_mult(self, opts_) ==
    IF Has(opts_, "zoom_multiplier") /\ ~Falsy(opts_.zoom_multiplier)
    THEN opts_.zoom_multiplier
    ELSE self.zoom_multiplier

\* parseInt(opts_.zoom_depth) || 0
zoom_depth(opts_) ==
    With(IF Has(opts_, "zoom_depth") THEN parseInt(opts_.zoom_depth) ELSE NaN,
         LAMBDA depth : IF Falsy(depth) THEN Zero ELSE depth)

zoom(self, opts_) ==
    With(ClipAdjustment_zoom(self._state, Mul(zoom_mult(self, opts_), zoom_depth(opts_))),
         LAMBDA state :
            [self |-> [self EXCEPT !._state = state],
             ret  |-> ImagePlot(plot_image(self), getState(state))])

\* the object as the constructor has it before it calls init
Blank ==
    [zoom_multiplier |-> Num(1),
     _state  |-> ClipAdjustment(Zero, Zero, Zero, Zero),
     _image  |-> Clip(Zero, Zero, Zero, Zero),
     _canvas |-> Clip(Zero, Zero, Zero, Zero)]

\* new ImagePlotter(...): init's return value is what the new object shows
ImagePlotter(image_width_, image_height_, canvas_width_, canvas_height_, opts_) ==
    init(Blank, image_width_, image_height_, canvas_width_, canvas_height_,
         [orientation |-> IF Has(opts_, "orientation") THEN opts_.orientation ELSE "cover"])

(***************************************************************************)
(* Inputs the callers draw from.  Image dimensions are at least 1 (below   *)
(* 1 parseInt gives 0 and the ratios divide by zero).  A fractional image  *)
(* dimension is drawn for the width only: the constructor treats the two   *)
(* dimensions alike (lines 14 to 16).                                      *)
(***************************************************************************)
IntSizes == {Num(1), Num(2)}
HalfSizes == {Rat(3, 2)}
ImageWidths == IntSizes \cup HalfSizes
ImageHeights == IntSizes
CanvasSizes == IntSizes
InitOpts == {NoOpts, [orientation |-> "cover"], [orientation |-> "contain"]}
Moves == {<<Num(-1), Num(2)>>, <<Rat(1, 2), Zero>>}
ZoomOpts ==
    {NoOpts,
     [zoom_depth |-> Num(-1)],
     [zoom_depth |-> Rat(3, 2), zoom_multiplier |-> Num(2)],
     [zoom_depth |-> Num(1), zoom_multiplier |-> Zero],
     [zoom_multiplier |-> Num(2)]}
FieldMultipliers == {Num(3)}

(***************************************************************************)
(* State: the plotter object, the ImagePlot its last call returned (after  *)
(* construction: the one init returned to the constructor, which is also   *)
(* the snapshot of the new object's adjustment), a record of that call,    *)
(* and the number of calls made since construction.                        *)
(***************************************************************************)
VARIABLES plotter, plot, lastOp, nops

vars == <<plotter, plot, lastOp, nops>>

\* new ImagePlotter(iw, ih, cw, ch, o)
Init ==
    \E iw \in ImageWidths, ih \in ImageHeights, cw \in CanvasSizes, ch \in CanvasSizes,
       o \in InitOpts :
        \E r \in {ImagePlotter(iw, ih, cw, ch, o)} :
            /\ plotter = r.self
            /\ plot = r.ret
            /\ lastOp = [op |-> "new", args |-> <<iw, ih, cw, ch, o>>]
            /\ nops = 0

Call_init ==
    /\ nops < MaxOps
    /\ \E iw \in ImageWidths, ih \in ImageHeights, cw \in CanvasSizes, ch \in CanvasSizes,
          o \in InitOpts :
        \E r \in {init(plotter, iw, ih, cw, ch, o)} :
            /\ plotter' = r.self
            /\ plot' = r.ret
            /\ lastOp' = [op |-> "init", args |-> <<iw, ih, cw, ch, o>>]
            /\ nops' = nops + 1

Call_centerFullSize ==
    /\ nops < MaxOps
    /\ \E r \in {centerFullSize(plotter)} :
        /\ plotter' = r.self
        /\ plot' = r.ret
        /\ lastOp' = [op |-> "centerFullSize", args |-> <<>>]
        /\ nops' = nops + 1

Call_cover ==
    /\ nops < MaxOps
    /\ \E r \in {cover(plotter)} :
        /\ plotter' = r.self
        /\ plot' = r.ret
        /\ lastOp' = [op |-> "cover", args |-> <<>>]
        /\ nops' = nops + 1

Call_contain ==
    /\ nops < MaxOps
    /\ \E r \in {contain(plotter)} :
        /\ plotter' = r.self
        /\ plot' = r.ret
        /\ lastOp' = [op |-> "contain", args |-> <<>>]
        /\ nops' = nops + 1

Call_move ==
    /\ nops < MaxOps
    /\ \E m \in Moves :
        \E r \in {move(plotter, m[1], m[2])} :
            /\ plotter' = r.self
            /\ plot' = r.ret
            /\ lastOp' = [op |-> "move", args |-> m]
            /\ nops' = nops + 1

Call_zoom ==
    /\ nops < MaxOps
    /\ \E o \in ZoomOpts :
        \E r \in {zoom(plotter, o)} :
            /\ plotter' = r.self
            /\ plot' = r.ret
            /\ lastOp' = [op |-> "zoom", args |-> <<o>>]
            /\ nops' = nops + 1

\* plotter.zoom_multiplier = m, the public field a caller may set
Set_zoom_multiplier ==
    /\ nops < MaxOps
    /\ \E m \in FieldMultipliers :
        /\ plotter' = [plotter EXCEPT !.zoom_multiplier = m]
        /\ lastOp' = [op |-> "set", args |-> <<m>>]
        /\ nops' = nops + 1
        /\ UNCHANGED plot

Next ==
    \/ Call_init
    \/ Call_centerFullSize
    \/ Call_cover
    \/ Call_contain
    \/ Call_move
    \/ Call_zoom
    \/ Set_zoom_multiplier

Spec == Init /\ [][Next]_vars

(***************************************************************************)
(* Properties.                                                             *)
(***************************************************************************)
IsInteger(p) == parseInt(p) = p
CenterX(c) == Add(c.left, Mul(c.width, Half))
CenterY(c) == Add(c.top, Mul(c.height, Half))
Centered(c, canvas) ==
    /\ CenterX(c) = Mul(canvas.width, Half)
    /\ CenterY(c) = Mul(canvas.height, Half)
Fresh == lastOp.op \in {"new", "init"}
Orientation == IF Has(lastOp.args[5], "orientation") THEN lastOp.args[5].orientation ELSE "cover"

WholeImage == IsInteger(plotter._image.width) /\ IsInteger(plotter._image.height)

\* C1: a plotter constructed with orientation "cover" has its viewportRect at
\* least as wide and as high as the viewport.  Stated for the whole-number
\* image sizes among the sizes the claim covers.
C1_CoverCoversViewport ==
    (lastOp.op = "new" /\ lastOp.args[5] = [orientation |-> "cover"] /\ WholeImage) =>
        /\ LessEq(plotter._canvas.width, plot.canvas.width)
        /\ LessEq(plotter._canvas.height, plot.canvas.height)

\* C2: a plotter constructed with orientation "contain" has its viewportRect
\* at most as wide and as high as the viewport.  Stated for the whole-number
\* image sizes among the sizes the claim covers.
C2_ContainFitsViewport ==
    (lastOp.op = "new" /\ lastOp.args[5] = [orientation |-> "contain"] /\ WholeImage) =>
        /\ LessEq(plot.canvas.width, plotter._canvas.width)
        /\ LessEq(plot.canvas.height, plotter._canvas.height)

\* C3: cover() called right after cover() returns the PlotResult the first
\* call returned.
C3_CoverIdempotent ==
    [][(lastOp.op = "cover" /\ lastOp'.op = "cover") => plot' = plot]_vars

\* C4: centerFullSize() returns the image at its full size, centered over the
\* viewport: width and height are the image's, left = (viewportWidth -
\* imageWidth)/2 and top = (viewportHeight - imageHeight)/2.
C4_CenterFullSizeCenters ==
    lastOp.op = "centerFullSize" =>
        plot.canvas =
            Clip(Mul(Sub(plotter._canvas.width, plotter._image.width), Half),
                 Mul(Sub(plotter._canvas.height, plotter._image.height), Half),
                 plotter._image.width, plotter._image.height)

\* C5 as stated: after construction or init, with either orientation and any
\* positive image and viewport size, the viewportRect is centered on the
\* viewport.
C5_InitCentered == Fresh => Centered(plot.canvas, plotter._canvas)

\* C5 as amended: the same for image dimensions that are whole numbers.
C5_InitCenteredWhole ==
    (Fresh /\ WholeImage) =>
        Centered(plot.canvas, plotter._canvas)

\* image 2x1 in viewport 1x1: cover gives 2x1 at (-1/2, 0), contain gives
\* 1 x 1/2 at (0, 1/4)
C5_Witness ==
    /\ lastOp.op = "init"
    /\ lastOp.args[1] = Num(2) /\ lastOp.args[2] = Num(1)
    /\ lastOp.args[3] = Num(1) /\ lastOp.args[4] = Num(1)
    /\ \/ Orientation = "cover"
          /\ plot.canvas = Clip(Rat(-1, 2), Zero, Num(2), Num(1))
       \/ Orientation = "contain"
          /\ plot.canvas = Clip(Zero, Rat(1, 4), Num(1), Rat(1, 2))
    /\ nops = 2

\* C6: init after any history returns what a freshly constructed plotter with
\* the same arguments returns, and leaves the adjustment such a plotter has.
C6_InitIsFullReset ==
    lastOp.op = "init" =>
        /\ plot = ImagePlotter(lastOp.args[1], lastOp.args[2], lastOp.args[3],
                                 lastOp.args[4], lastOp.args[5]).ret
        /\ plotter._state = ImagePlotter(lastOp.args[1], lastOp.args[2], lastOp.args[3],
                                         lastOp.args[4], lastOp.args[5]).self._state

C6_Witness == lastOp.op = "init" /\ nops = 2 /\ plotter.zoom_multiplier = Num(3)

\* C7: zoom leaves the center of the rectangle where it was.
C7_ZoomCentered ==
    [][lastOp'.op = "zoom" =>
        /\ CenterX(plot'.canvas) = CenterX(getState(plotter._state))
        /\ CenterY(plot'.canvas) = CenterY(getState(plotter._state))]_vars

\* a zoom by 2 * 1 of a rectangle that a move had taken off the center
C7_Witness ==
    /\ lastOp.op = "zoom"
    /\ lastOp.args[1] = [zoom_depth |-> Rat(3, 2), zoom_multiplier |-> Num(2)]
    /\ nops = 2
    /\ WholeImage
    /\ ~Centered(plot.canvas, plotter._canvas)

\* C8 as stated: the direction ratios are those of construction and
\* width() * h = height() * w for the w, h the adjustment was constructed with.
C8_AspectRatio ==
    /\ plotter._state._sin =
           ClipAdjustment(Zero, Zero, plotter._image.width, plotter._image.height)._sin
    /\ plotter._state._cos =
           ClipAdjustment(Zero, Zero, plotter._image.width, plotter._image.height)._cos
    /\ Mul(getWidth(plotter._state), plotter._image.height)
           = Mul(getHeight(plotter._state), plotter._image.width)

\* C8 as amended: the direction ratios are those of construction and
\* width() * parseInt(h) = height() * parseInt(w).
C8_AspectRatioTruncated ==
    /\ plotter._state._sin =
           ClipAdjustment(Zero, Zero, plotter._image.width, plotter._image.height)._sin
    /\ plotter._state._cos =
           ClipAdjustment(Zero, Zero, plotter._image.width, plotter._image.height)._cos
    /\ Mul(getWidth(plotter._state), parseInt(plotter._image.height))
           = Mul(getHeight(plotter._state), parseInt(plotter._image.width))

C8_Witness ==
    /\ lastOp.op = "zoom"
    /\ nops = 2
    /\ plotter._image.width = Num(2) /\ plotter._image.height = Num(1)
    /\ getWidth(plotter._state) # Zero
    /\ getWidth(plotter._state) # plot.image.width

\* the diagonal's change in the step just taken
HypChange == Sub(plotter'._state._hyp, plotter._state._hyp)
ZoomArg == lastOp'.args[1]
Depth == IF Has(ZoomArg, "zoom_depth") THEN parseInt(ZoomArg.zoom_depth) ELSE Zero

\* C9 as stated: zoom changes the diagonal by multiplier * depth, the
\* multiplier being the per-call one whenever one is supplied (0 included).
C9_ZoomAmount ==
    [][lastOp'.op = "zoom" =>
        HypChange = Mul(IF Has(ZoomArg, "zoom_multiplier")
                        THEN ZoomArg.zoom_multiplier
                        ELSE plotter.zoom_multiplier, Depth)]_vars

\* C9 as amended: the per-call multiplier counts when it is supplied and is
\* not 0; the plotter's field counts otherwise.
C9_ZoomAmountNonzero ==
    [][lastOp'.op = "zoom" =>
        HypChange = Mul(IF Has(ZoomArg, "zoom_multiplier") /\ ZoomArg.zoom_multiplier # Zero
                        THEN ZoomArg.zoom_multiplier
                        ELSE plotter.zoom_multiplier, Depth)]_vars

C9_Witness ==
    /\ lastOp.op = "zoom"
    /\ lastOp.args[1] = [zoom_depth |-> Num(1), zoom_multiplier |-> Zero]
    /\ plotter.zoom_multiplier = Num(3)

\* C10: move(dx, dy) returns the rectangle it had, shifted by (dx, dy), with
\* the same width and height, and the whole image as imageRect.
C10_MoveTranslates ==
    [][lastOp'.op = "move" =>
        /\ plot'.canvas = Clip(Add(getX(plotter._state), lastOp'.args[1]),
                                 Add(getY(plotter._state), lastOp'.args[2]),
                                 getWidth(plotter._state), getHeight(plotter._state))
        /\ plot'.image = Clip(Zero, Zero, plotter._image.width, plotter._image.height)]_vars

C10_Witness ==
    /\ lastOp.op = "move"
    /\ lastOp.args = <<Num(-1), Num(2)>>
    /\ Less(plot.canvas.left, Num(-1))

====
